---- MODULE Spec2Model ----
(***************************************************************************)
(* file-tmux-file: the poll loop of main.py, the directory reconciliation  *)
(* of cleanup.py and the input-queue state machine of input_queue.py.      *)
(*                                                                         *)
(* Text is a sequence of one-character strings.  A path is a sequence of   *)
(* names relative to the output directory.                                 *)
(***************************************************************************)
EXTENDS Integers, Sequences, FiniteSets, TLC

VARIABLES
    fs,                 \* the tree under output_dir: path -> [dir, data]
    _pending_content,   \* input_queue._pending_content: pane_id -> text
    hist,               \* record of the process_input_queue call just made
    prev,               \* what the latest call read, when it began buffering
    wnext,              \* the external writer: index of its next fresh letter
    hi,                 \* position of the latest-written letter sent so far
    pc,                 \* main(): the step of the poll loop to take next
    panes,              \* main(): panes, the list list_panes() returned
    si,                 \* main(): position in panes_by_session.items()
    pi,                 \* main(): position in session_panes
    session_mappings,   \* main(): session_name -> {window_id -> dir_name}
    mappings_changed,   \* main(): session_name -> bool, this cycle
    session_changed,    \* main(): session_changed of the session in progress
    window_dir_name,    \* main(): window_dir_name of the pane in progress
    needs_migration,    \* main(): needs_migration
    start,              \* history: tree and mappings as the cycle began, panes before
    same,               \* history: list_panes() returned the previous list
    dirty,              \* history: the reconcile steps changed something
    last_rename,        \* history: what get_or_create_window_dir just did
    procs,              \* the started processes: where each is in main()
    holder,             \* the processes holding the flock on .lock
    sink_ok,            \* whether tmux carried out the key calls just made
    read_content,       \* process_input_queue: content, as read from the file
    stale,              \* cleanup_stale: the stale directories still to remove
    work,               \* _remove_dir_recursive: the calls under way, innermost first
    gone,               \* how many paths another party has removed
    stopped,            \* the external writer has stopped writing
    cycles              \* polls of the input file since the writer stopped

qvars == <<_pending_content, hist, prev, hi>>
lvars == <<pc, panes, si, pi, session_mappings, mappings_changed,
           session_changed, window_dir_name, needs_migration>>
gvars == <<start, same, dirty, last_rename>>
svars == <<stale, work, gone>>
dvars == <<stopped, cycles>>
xvars == <<procs, holder, sink_ok, read_content, svars, dvars>>
vars == <<fs, qvars, wnext, lvars, gvars, xvars>>

-----------------------------------------------------------------------------
(* Bounds *)

MaxLen == 5         \* longest input file plus pending text the writer builds
MaxLetters == 2     \* number of distinct letters the writer may write
MaxQueued == 1      \* longest text queued in an input file during the poll loop

-----------------------------------------------------------------------------
(* Characters and the str methods used by input_queue.py *)

NL == "\n"
SP == " "
AllLetters == <<"a", "b", "c", "d", "e", "f", "g", "h">>
Letters == SubSeq(AllLetters, 1, MaxLetters)
LetterSet == {Letters[i] : i \in 1..Len(Letters)}

\* position of a letter in the order the writer writes letters
Ord(c) == CHOOSE i \in 1..Len(AllLetters) : AllLetters[i] = c

IsSpace(c) == c \in {NL, SP}

\* str.split(sep) for the separator "\n\n": non-overlapping, left to right
RECURSIVE SplitBlank(_, _)
SplitBlank(s, cur) ==
    IF s = <<>> THEN <<cur>>
    ELSE IF Len(s) >= 2 /\ s[1] = NL /\ s[2] = NL
         THEN <<cur>> \o SplitBlank(SubSeq(s, 3, Len(s)), <<>>)
         ELSE SplitBlank(Tail(s), Append(cur, s[1]))

\* str.split('\n')
RECURSIVE SplitLines(_, _)
SplitLines(s, cur) ==
    IF s = <<>> THEN <<cur>>
    ELSE IF s[1] = NL
         THEN <<cur>> \o SplitLines(Tail(s), <<>>)
         ELSE SplitLines(Tail(s), Append(cur, s[1]))

\* str.lstrip() / str.rstrip() / str.strip(): whitespace off the ends
RECURSIVE LStrip(_)
LStrip(s) == IF s # <<>> /\ IsSpace(s[1]) THEN LStrip(Tail(s)) ELSE s

RECURSIVE RStrip(_)
RStrip(s) ==
    IF s # <<>> /\ IsSpace(s[Len(s)]) THEN RStrip(SubSeq(s, 1, Len(s) - 1)) ELSE s

Strip(s) == RStrip(LStrip(s))

\* str.rstrip('\n')
RECURSIVE RStripNL(_)
RStripNL(s) ==
    IF s # <<>> /\ s[Len(s)] = NL THEN RStripNL(SubSeq(s, 1, Len(s) - 1)) ELSE s

\* str.endswith('\n')
EndsWithNL(s) == s # <<>> /\ s[Len(s)] = NL

-----------------------------------------------------------------------------
(* The key sink: tmux.send_keys, send_soft_newline, send_enter *)

send_keys(pane_id, text) == [op |-> "keys", pane |-> pane_id, text |-> text]
send_soft_newline(pane_id) == [op |-> "soft", pane |-> pane_id, text |-> <<>>]
send_enter(pane_id) == [op |-> "enter", pane |-> pane_id, text |-> <<>>]

\* the loop of _send_message over lines[i..]
RECURSIVE SendLines(_, _, _)
SendLines(pane_id, lines, i) ==
    IF i > Len(lines) THEN <<>>
    ELSE <<send_keys(pane_id, lines[i])>>
         \o (IF i < Len(lines) THEN <<send_soft_newline(pane_id)>> ELSE <<>>)
         \o SendLines(pane_id, lines, i + 1)

\* mutant: the message goes out in one send_keys call, newlines included
_send_message_unsplit(pane_id, message, submit) ==
    <<send_keys(pane_id, message)>>
    \o (IF submit THEN <<send_enter(pane_id)>> ELSE <<>>)

_send_message(pane_id, message, submit) ==
    SendLines(pane_id, SplitLines(message, <<>>), 1)
    \o (IF submit THEN <<send_enter(pane_id)>> ELSE <<>>)

-----------------------------------------------------------------------------
(* dict operations on _pending_content *)

EmptyDict == [x \in {} |-> <<>>]

\* no sweep of cleanup_stale under way
NoStale == [panes |-> {}, windows |-> {}, sessions |-> {}]
NoSweep ==
    /\ stale = NoStale
    /\ work = <<>>
    /\ gone = 0

\* the external writer may write
Writing ==
    /\ stopped = FALSE
    /\ cycles = 0

\* one process, past acquire_lock; no call of process_input_queue and no
\* sweep under way
Processes == {1, 2, 3}
OneRunning ==
    /\ procs = [p \in Processes |->
                   [at |-> IF p = 1 THEN "loop" ELSE "none", wrote |-> FALSE]]
    /\ holder = {1}
    /\ sink_ok = TRUE
    /\ read_content = <<>>
    /\ NoSweep
    /\ Writing

DictPop(d, k) == [x \in (DOMAIN d) \ {k} |-> d[x]]
DictSet(d, k, v) == [x \in (DOMAIN d) \cup {k} |-> IF x = k THEN v ELSE d[x]]

-----------------------------------------------------------------------------
(* process_input_queue as a function of what it reads: the file content    *)
(* and the pending dict.  The result says whether the file is rewritten    *)
(* (write, data), the new dict and the key-sink calls, in order.           *)

\* the loop "for msg in messages[:-1]" from message i on
RECURSIVE SendComplete(_, _, _, _)
SendComplete(pane_id, messages, i, pend) ==
    IF i > Len(messages) - 1 THEN [pend |-> pend, sent |-> <<>>]
    ELSE IF Strip(messages[i]) # <<>>
         THEN LET msg == IF pane_id \in DOMAIN pend
                         THEN pend[pane_id] \o <<NL>> \o messages[i]
                         ELSE messages[i]
                  rest == SendComplete(pane_id, messages, i + 1,
                                       DictPop(pend, pane_id))
              IN  [pend |-> rest.pend,
                   sent |-> _send_message(pane_id, msg, TRUE) \o rest.sent]
         ELSE SendComplete(pane_id, messages, i + 1, pend)

\* mutant: the pending text is dropped without being sent
DrainEmptySilent(pane_id, pend) ==
    [write |-> FALSE, data |-> <<>>, pend |-> DictPop(pend, pane_id),
     sent |-> <<>>]

\* mutant: the pending text stays held when the file is empty
DrainEmptyHold(pane_id, pend) ==
    [write |-> FALSE, data |-> <<>>, pend |-> pend, sent |-> <<>>]

\* content is empty
DrainEmpty(pane_id, pend) ==
    IF pane_id \in DOMAIN pend
    THEN [write |-> FALSE, data |-> <<>>,
          pend |-> DictPop(pend, pane_id),
          sent |-> _send_message(pane_id, pend[pane_id], TRUE)]
    ELSE [write |-> FALSE, data |-> <<>>, pend |-> pend, sent |-> <<>>]

\* mutant: the complete messages are sent but the file is not rewritten
DrainCompleteNoRewrite(pane_id, messages, pend) ==
    LET done == SendComplete(pane_id, messages, 1, pend)
        remaining == messages[Len(messages)]
    IN  [write |-> FALSE, data |-> <<>>,
         pend |-> IF remaining # <<>>
                  THEN DictSet(done.pend, pane_id, remaining)
                  ELSE DictPop(done.pend, pane_id),
         sent |-> done.sent]

\* len(messages) > 1: at least one blank line
DrainComplete(pane_id, messages, pend) ==
    LET done == SendComplete(pane_id, messages, 1, pend)
        remaining == messages[Len(messages)]
    IN  IF remaining # <<>>
        THEN [write |-> TRUE, data |-> remaining,
              pend |-> DictSet(done.pend, pane_id, remaining),
              sent |-> done.sent]
        ELSE [write |-> TRUE, data |-> <<>>,
              pend |-> DictPop(done.pend, pane_id),
              sent |-> done.sent]

\* no blank line, content ends with a newline
BufferLine(pane_id, content, pend) ==
    [write |-> TRUE, data |-> <<>>,
     pend |-> IF pane_id \in DOMAIN pend
              THEN DictSet(pend, pane_id,
                           pend[pane_id] \o <<NL>> \o RStripNL(content))
              ELSE DictSet(pend, pane_id, RStripNL(content)),
     sent |-> <<>>]

\* mutant: unchanged content is buffered again, never submitted
BufferPartialForever(pane_id, content, pend) ==
    [write |-> FALSE, data |-> <<>>,
     pend |-> DictSet(pend, pane_id, content),
     sent |-> <<>>]

\* no blank line, no trailing newline
BufferPartial(pane_id, content, pend) ==
    IF pane_id \in DOMAIN pend /\ pend[pane_id] # <<>> /\ content = pend[pane_id]
    THEN [write |-> TRUE, data |-> <<>>,
          pend |-> DictPop(pend, pane_id),
          sent |-> _send_message(pane_id, content, TRUE)]
    ELSE [write |-> FALSE, data |-> <<>>,
          pend |-> DictSet(pend, pane_id, content),
          sent |-> <<>>]

DrainInput(pane_id, content, pend) ==
    IF content = <<>> THEN DrainEmpty(pane_id, pend)
    ELSE LET messages == SplitBlank(content, <<>>)
         IN  IF Len(messages) > 1 THEN DrainComplete(pane_id, messages, pend)
             ELSE IF EndsWithNL(content) THEN BufferLine(pane_id, content, pend)
             ELSE BufferPartial(pane_id, content, pend)

-----------------------------------------------------------------------------
(* Files *)

Dir == [dir |-> TRUE, data |-> <<>>]
File(data) == [dir |-> FALSE, data |-> data]

Exists(f, path) == path \in DOMAIN f
WriteText(f, path, data) ==
    [p \in (DOMAIN f) \cup {path} |-> IF p = path THEN File(data) ELSE f[p]]

-----------------------------------------------------------------------------
(* Paths and pathlib operations on the tree *)

IsPrefix(p, q) == Len(p) <= Len(q) /\ SubSeq(q, 1, Len(p)) = p
IsDir(f, path) == path \in DOMAIN f /\ f[path].dir
PathName(path) == IF path = <<>> THEN "" ELSE path[Len(path)]

\* Path.iterdir()
IterDir(f, path) ==
    {q \in DOMAIN f : Len(q) = Len(path) + 1 /\ IsPrefix(path, q)}

\* Path.mkdir(parents=True, exist_ok=True)
MkdirParents(f, path) ==
    [p \in (DOMAIN f) \cup {SubSeq(path, 1, n) : n \in 0..Len(path)} |->
        IF p \in DOMAIN f THEN f[p] ELSE Dir]

\* what lies under path, by relative path
Subtree(f, path) ==
    [r \in {SubSeq(q, Len(path) + 1, Len(q)) :
               q \in {x \in DOMAIN f : IsPrefix(path, x)}}
        |-> f[path \o r]]

\* _remove_dir_recursive for each path of todo: the children of a directory
\* first, then rmdir; unlink for a file
RECURSIVE RemoveEach(_, _)
RemoveEach(f, todo) ==
    IF todo = {} THEN f
    ELSE LET path == CHOOSE p \in todo : TRUE
             g == IF IsDir(f, path) THEN RemoveEach(f, IterDir(f, path)) ELSE f
         IN  RemoveEach([p \in (DOMAIN g) \ {path} |-> g[p]], todo \ {path})

_remove_dir_recursive(f, path) == RemoveEach(f, {path})

\* Path.rename(new): whatever is at old, and under it, moves to new
Moved(old, new, p) ==
    IF IsPrefix(old, p) THEN new \o SubSeq(p, Len(old) + 1, Len(p)) ELSE p

Rename(f, old, new) ==
    [q \in {Moved(old, new, p) : p \in DOMAIN f} |->
        f[CHOOSE p \in DOMAIN f : Moved(old, new, p) = q]]

-----------------------------------------------------------------------------
(* tmux: the panes list_panes() can return, and names *)

Sessions == {"s"}
WindowIds == {"@1", "@2"}
Indices == {0, 1}
WindowNames == {"a", "b c"}

\* re.sub(r'[^\w\-.]', '_', name)
sanitize_name(name) == IF name = "b c" THEN "b_c" ELSE name

\* str(pane.pane_index), and the directory names str.isdigit() accepts
StrOf(i) == IF i = 0 THEN "0" ELSE "1"
IsDigit(name) == name \in {"0", "1"}
IntOf(name) == IF name = "0" THEN 0 ELSE 1

\* startswith('.')
IsHidden(name) == name = ".lock"

\* the window directory name composed from index and name
get_window_dir_name(window_index, window_name) ==
    LET n == sanitize_name(window_name)
    IN  CASE window_index = 0 /\ n = "a" -> "0-a"
          [] window_index = 0 /\ n = "b_c" -> "0-b_c"
          [] window_index = 1 /\ n = "a" -> "1-a"
          [] window_index = 1 /\ n = "b_c" -> "1-b_c"

\* pane ids: window @1 holds pane %1 and, when split, pane %3; @2 holds %2
PaneIdOf(window_id, pane_index) ==
    IF window_id = "@1" THEN (IF pane_index = 0 THEN "%1" ELSE "%3") ELSE "%2"

Pane(session, window_id, window_index, window_name, pane_index) ==
    [session |-> session, window_id |-> window_id,
     window_index |-> window_index, window_name |-> window_name,
     pane_index |-> pane_index, pane_id |-> PaneIdOf(window_id, pane_index)]

\* A state of tmux: the live windows of session "s", each with its index and
\* name (live windows have distinct indices), and whether @1 is split.
Universes ==
    {u \in [win : UNION {[ws -> [index : Indices, name : WindowNames]] :
                            ws \in SUBSET WindowIds},
            split : BOOLEAN] :
        /\ \A v, w \in DOMAIN u.win :
              v # w => u.win[v].index # u.win[w].index
        /\ u.split => "@1" \in DOMAIN u.win}

\* the panes of the window at an index, by pane index
PanesAt(u, i) ==
    LET ws == {w \in DOMAIN u.win : u.win[w].index = i}
    IN  IF ws = {} THEN <<>>
        ELSE LET w == CHOOSE x \in ws : TRUE
                 first == Pane("s", w, i, u.win[w].name, 0)
             IN  IF w = "@1" /\ u.split
                 THEN <<first, Pane("s", w, i, u.win[w].name, 1)>>
                 ELSE <<first>>

\* list_panes(): tmux lists the panes by window index, then pane index
list_panes(u) == PanesAt(u, 0) \o PanesAt(u, 1)

-----------------------------------------------------------------------------
(* cleanup.py *)

MappingFile(session_dir) == session_dir \o <<"windows.json">>

load_window_mapping(f, session_dir) ==
    IF Exists(f, MappingFile(session_dir))
    THEN f[MappingFile(session_dir)].data
    ELSE EmptyDict

\* mutant: the mapping is not written
save_window_mapping_skip(f, session_dir, mapping) == f

save_window_mapping(f, session_dir, mapping) ==
    WriteText(f, MappingFile(session_dir), mapping)

\* mutant: a colliding target is not removed before the rename
get_or_create_window_dir_merge(pane, f, mapping) ==
    LET session_dir == <<sanitize_name(pane.session)>>
        new_dir_name == get_window_dir_name(pane.window_index, pane.window_name)
    IN  IF pane.window_id \in DOMAIN mapping
        THEN LET old_dir == session_dir \o <<mapping[pane.window_id]>>
                 new_dir == session_dir \o <<new_dir_name>>
             IN  IF mapping[pane.window_id] = new_dir_name
                 THEN [name |-> new_dir_name, changed |-> FALSE,
                       fs |-> f, mapping |-> mapping]
                 ELSE [name |-> new_dir_name, changed |-> TRUE,
                       fs |-> IF Exists(f, old_dir)
                              THEN Rename(f, old_dir, new_dir) ELSE f,
                       mapping |-> DictSet(mapping, pane.window_id, new_dir_name)]
        ELSE [name |-> new_dir_name, changed |-> TRUE, fs |-> f,
              mapping |-> DictSet(mapping, pane.window_id, new_dir_name)]

\* mutant: the rename is made but the mapping entry keeps the old name
get_or_create_window_dir_forget(pane, f, mapping) ==
    LET session_dir == <<sanitize_name(pane.session)>>
        new_dir_name == get_window_dir_name(pane.window_index, pane.window_name)
    IN  IF pane.window_id \in DOMAIN mapping
        THEN LET old_dir == session_dir \o <<mapping[pane.window_id]>>
                 new_dir == session_dir \o <<new_dir_name>>
             IN  IF mapping[pane.window_id] = new_dir_name
                 THEN [name |-> new_dir_name, changed |-> FALSE,
                       fs |-> f, mapping |-> mapping]
                 ELSE [name |-> new_dir_name, changed |-> TRUE,
                       fs |-> IF Exists(f, old_dir)
                              THEN Rename(IF Exists(f, new_dir) /\ new_dir # old_dir
                                          THEN _remove_dir_recursive(f, new_dir)
                                          ELSE f,
                                          old_dir, new_dir)
                              ELSE f,
                       mapping |-> mapping]
        ELSE [name |-> new_dir_name, changed |-> TRUE, fs |-> f,
              mapping |-> DictSet(mapping, pane.window_id, new_dir_name)]

\* mutant: a window seen for the first time is entered but not reported
get_or_create_window_dir_quiet(pane, f, mapping) ==
    LET session_dir == <<sanitize_name(pane.session)>>
        new_dir_name == get_window_dir_name(pane.window_index, pane.window_name)
    IN  IF pane.window_id \in DOMAIN mapping
        THEN LET old_dir == session_dir \o <<mapping[pane.window_id]>>
                 new_dir == session_dir \o <<new_dir_name>>
             IN  IF mapping[pane.window_id] = new_dir_name
                 THEN [name |-> new_dir_name, changed |-> FALSE,
                       fs |-> f, mapping |-> mapping]
                 ELSE [name |-> new_dir_name, changed |-> TRUE,
                       fs |-> IF Exists(f, old_dir)
                              THEN Rename(IF Exists(f, new_dir) /\ new_dir # old_dir
                                          THEN _remove_dir_recursive(f, new_dir)
                                          ELSE f,
                                          old_dir, new_dir)
                              ELSE f,
                       mapping |-> DictSet(mapping, pane.window_id, new_dir_name)]
        ELSE [name |-> new_dir_name, changed |-> FALSE, fs |-> f,
              mapping |-> DictSet(mapping, pane.window_id, new_dir_name)]

\* get_or_create_window_dir(pane, output_dir, mapping): the name and the
\* changed flag it returns, and the tree and the mapping as it leaves them
get_or_create_window_dir(pane, f, mapping) ==
    LET session_dir == <<sanitize_name(pane.session)>>
        new_dir_name == get_window_dir_name(pane.window_index, pane.window_name)
    IN  IF pane.window_id \in DOMAIN mapping
        THEN LET old_dir == session_dir \o <<mapping[pane.window_id]>>
                 new_dir == session_dir \o <<new_dir_name>>
             IN  IF mapping[pane.window_id] = new_dir_name
                 THEN [name |-> new_dir_name, changed |-> FALSE,
                       fs |-> f, mapping |-> mapping]
                 ELSE [name |-> new_dir_name, changed |-> TRUE,
                       fs |-> IF Exists(f, old_dir)
                              THEN Rename(IF Exists(f, new_dir) /\ new_dir # old_dir
                                          THEN _remove_dir_recursive(f, new_dir)
                                          ELSE f,
                                          old_dir, new_dir)
                              ELSE f,
                       mapping |-> DictSet(mapping, pane.window_id, new_dir_name)]
        ELSE [name |-> new_dir_name, changed |-> TRUE, fs |-> f,
              mapping |-> DictSet(mapping, pane.window_id, new_dir_name)]

PaneSet(ps) == {ps[i] : i \in 1..Len(ps)}

\* the record of a rename made by get_or_create_window_dir: none yet
NoRename ==
    [renamed |-> FALSE, collided |-> FALSE, stale |-> FALSE, pane |-> "",
     wid |-> "", old |-> <<>>, new |-> <<>>, before |-> EmptyDict,
     target |-> EmptyDict]

\* mapping.get(pane.window_id, get_window_dir_name(...)) of cleanup_stale
ActiveWindowDirName(pane, maps) ==
    LET mapping == IF pane.session \in DOMAIN maps
                   THEN maps[pane.session] ELSE EmptyDict
    IN  IF pane.window_id \in DOMAIN mapping
        THEN mapping[pane.window_id]
        ELSE get_window_dir_name(pane.window_index, pane.window_name)

ActiveSessionDirs(active_panes) ==
    {<<sanitize_name(p.session)>> : p \in PaneSet(active_panes)}

ActiveWindowDirs(active_panes, maps) ==
    {<<sanitize_name(p.session), ActiveWindowDirName(p, maps)>> :
        p \in PaneSet(active_panes)}

ActivePaneDirs(active_panes, maps) ==
    {<<sanitize_name(p.session), ActiveWindowDirName(p, maps),
       StrOf(p.pane_index)>> : p \in PaneSet(active_panes)}

\* mutant: the keys of vanished windows stay in the mappings
PruneMappings_keep(active_panes, maps) == maps

\* "Clean up stale window IDs from mappings"
PruneMappings(active_panes, maps) ==
    [s \in DOMAIN maps |->
        LET active_ids == {p.window_id :
                             p \in {x \in PaneSet(active_panes) : x.session = s}}
        IN  [wid \in (DOMAIN maps[s]) \cap active_ids |-> maps[s][wid]]]

\* the session directories a walk of output_dir visits
VisibleDirs(f, path) ==
    {d \in IterDir(f, path) : IsDir(f, d) /\ ~IsHidden(PathName(d))}

\* "Clean up empty parent directories"
RemoveEmptySessions(f) ==
    RemoveEach(f, {d \in VisibleDirs(f, <<>>) :
                     \A c \in IterDir(f, d) : PathName(c) = "windows.json"})

\* mutant: stale pane directories of active windows are not collected
cleanup_stale_keep_panes(f, active_panes, maps) ==
    LET active_session_dirs == ActiveSessionDirs(active_panes)
        active_window_dirs == ActiveWindowDirs(active_panes, maps)
        session_dirs == VisibleDirs(f, <<>>)
        stale_session_dirs == session_dirs \ active_session_dirs
        window_dirs == UNION {{w \in IterDir(f, d) : IsDir(f, w)} :
                                 d \in session_dirs \cap active_session_dirs}
        stale_window_dirs == window_dirs \ active_window_dirs
        swept == RemoveEach(RemoveEach(f, stale_window_dirs), stale_session_dirs)
    IN  IF ~Exists(f, <<>>)
        THEN [fs |-> f, session_mappings |-> maps]
        ELSE [fs |-> RemoveEmptySessions(swept),
              session_mappings |-> PruneMappings(active_panes, maps)]

\* cleanup_stale(output_dir, active_panes, session_mappings): the tree and
\* the session mappings as it leaves them
cleanup_stale(f, active_panes, maps) ==
    LET active_session_dirs == ActiveSessionDirs(active_panes)
        active_window_dirs == ActiveWindowDirs(active_panes, maps)
        active_pane_dirs == ActivePaneDirs(active_panes, maps)
        session_dirs == VisibleDirs(f, <<>>)
        stale_session_dirs == session_dirs \ active_session_dirs
        window_dirs == UNION {{w \in IterDir(f, d) : IsDir(f, w)} :
                                 d \in session_dirs \cap active_session_dirs}
        stale_window_dirs == window_dirs \ active_window_dirs
        stale_pane_dirs ==
            UNION {{p \in IterDir(f, w) : IsDir(f, p)} \ active_pane_dirs :
                      w \in window_dirs \cap active_window_dirs}
        swept == RemoveEach(RemoveEach(RemoveEach(f, stale_pane_dirs),
                                       stale_window_dirs),
                            stale_session_dirs)
    IN  IF ~Exists(f, <<>>)
        THEN [fs |-> f, session_mappings |-> maps]
        ELSE [fs |-> RemoveEmptySessions(swept),
              session_mappings |-> PruneMappings(active_panes, maps)]

\* the pane migrate_old_format finds for a window index: the first listed
FirstAtIndex(session_panes, window_index) ==
    LET at == SelectSeq(session_panes, LAMBDA p : p.window_index = window_index)
    IN  IF at = <<>> THEN <<>> ELSE <<at[1]>>

\* "Check for old-style numeric directories": st is the tree and the mapping
RECURSIVE MigrateWindows(_, _, _, _)
MigrateWindows(st, todo, session_dir, session_panes) ==
    IF todo = {} THEN st
    ELSE LET window_dir == CHOOSE w \in todo : TRUE
             found == FirstAtIndex(session_panes, IntOf(PathName(window_dir)))
             next ==
                 IF ~IsDir(st.fs, window_dir) \/ ~IsDigit(PathName(window_dir))
                 THEN st
                 ELSE IF found = <<>>
                 THEN [st EXCEPT !.fs = _remove_dir_recursive(st.fs, window_dir)]
                 ELSE LET pane == found[1]
                          new_dir_name == get_window_dir_name(pane.window_index,
                                                              pane.window_name)
                          new_dir == session_dir \o <<new_dir_name>>
                          cleared == IF Exists(st.fs, new_dir) /\ new_dir # window_dir
                                     THEN _remove_dir_recursive(st.fs, new_dir)
                                     ELSE st.fs
                      IN  [fs |-> Rename(cleared, window_dir, new_dir),
                           mapping |-> DictSet(st.mapping, pane.window_id,
                                               new_dir_name)]
         IN  MigrateWindows(next, todo \ {window_dir}, session_dir, session_panes)

\* the loop over output_dir.iterdir(): st is the tree and the mappings
RECURSIVE MigrateSessions(_, _, _)
MigrateSessions(st, todo, active_panes) ==
    IF todo = {} THEN st
    ELSE LET session_dir == CHOOSE d \in todo : TRUE
             named == SelectSeq(active_panes,
                         LAMBDA p : sanitize_name(p.session) = PathName(session_dir))
             next ==
                 IF named = <<>> THEN st
                 ELSE LET session_name == named[1].session
                          session_panes == SelectSeq(active_panes,
                                              LAMBDA p : p.session = session_name)
                          m == MigrateWindows(
                                   [fs |-> st.fs,
                                    mapping |-> load_window_mapping(st.fs, session_dir)],
                                   IterDir(st.fs, session_dir),
                                   session_dir, session_panes)
                      IN  [fs |-> save_window_mapping(m.fs, session_dir, m.mapping),
                           session_mappings |->
                               DictSet(st.session_mappings, session_name, m.mapping)]
         IN  MigrateSessions(next, todo \ {session_dir}, active_panes)

\* migrate_old_format(output_dir, active_panes): the tree as it leaves it and
\* the session mappings it returns
migrate_old_format(f, active_panes) ==
    IF ~Exists(f, <<>>)
    THEN [fs |-> f, session_mappings |-> EmptyDict]
    ELSE MigrateSessions([fs |-> f, session_mappings |-> EmptyDict],
                         VisibleDirs(f, <<>>), active_panes)

-----------------------------------------------------------------------------
(* snapshot.py *)

\* the header of content.txt; the pane title and the captured text are left out
Header(pane) ==
    <<pane.session, StrOf(pane.window_index), pane.window_name,
      StrOf(pane.pane_index)>>

PaneDir(pane, dir_name) ==
    <<sanitize_name(pane.session), dir_name, StrOf(pane.pane_index)>>

\* write_snapshot(pane, output_dir, scrollback, window_dir_name)
write_snapshot(f, pane, dir_name) ==
    LET pane_dir == PaneDir(pane, dir_name)
        made == MkdirParents(f, pane_dir)
        written == WriteText(made, pane_dir \o <<"content.txt">>, Header(pane))
    IN  IF Exists(written, pane_dir \o <<"input.txt">>)
        THEN written
        ELSE WriteText(written, pane_dir \o <<"input.txt">>, <<>>)

-----------------------------------------------------------------------------
(* process_input_queue(pane_id, input_file), with the record of the call:   *)
(* what it read, the key-sink calls it made (sent), and what it left.       *)

\* hist is the record of a call until the writer next touches the file.
\* prev outlives it: whether the latest call began buffering (no pending text
\* before it, a non-empty content with no blank line), and what it read then.
FirstBuffering(pane_id, content) ==
    /\ pane_id \notin DOMAIN _pending_content
    /\ content # <<>>
    /\ Len(SplitBlank(content, <<>>)) = 1

NoPrev == [first |-> FALSE, content |-> <<>>]

\* the letters of the texts sent, in the order sent, as writer positions
RECURSIVE SentOrds(_)
SentOrds(evs) ==
    IF evs = <<>> THEN <<>>
    ELSE LET t == evs[1].text
         IN  [i \in 1..Len(SelectSeq(t, LAMBDA c : ~IsSpace(c)))
                 |-> Ord(SelectSeq(t, LAMBDA c : ~IsSpace(c))[i])]
             \o SentOrds(Tail(evs))

SeqMax(q, m) ==
    IF q = <<>> THEN m
    ELSE LET top == CHOOSE x \in {q[i] : i \in 1..Len(q)} :
                        \A j \in 1..Len(q) : q[j] <= x
         IN  IF top > m THEN top ELSE m

PollRecord(pane_id, content, r) ==
    [valid |-> TRUE,
     hi |-> hi,
     prev_first |-> prev.first,
     prev_content |-> prev.content,
     content |-> content,
     had |-> pane_id \in DOMAIN _pending_content,
     pend |-> IF pane_id \in DOMAIN _pending_content
              THEN _pending_content[pane_id] ELSE <<>>,
     sent |-> r.sent,
     file_after |-> IF r.write THEN r.data ELSE content,
     had_after |-> pane_id \in DOMAIN r.pend,
     pend_after |-> IF pane_id \in DOMAIN r.pend THEN r.pend[pane_id] ELSE <<>>]

NoPoll ==
    [valid |-> FALSE, hi |-> 0, prev_first |-> FALSE, prev_content |-> <<>>,
     content |-> <<>>, had |-> FALSE, pend |-> <<>>,
     sent |-> <<>>, file_after |-> <<>>, had_after |-> FALSE,
     pend_after |-> <<>>]

process_input_queue(pane_id, input_file) ==
    IF ~Exists(fs, input_file)
    THEN UNCHANGED <<fs, _pending_content, hist, prev, hi>>
    ELSE \E content \in {fs[input_file].data} :
         \E r \in {DrainInput(pane_id, content, _pending_content)} :
         \E ords \in {SentOrds(r.sent)} :
             /\ fs' = IF r.write THEN WriteText(fs, input_file, r.data) ELSE fs
             /\ _pending_content' = r.pend
             /\ hist' = PollRecord(pane_id, content, r)
             /\ hi' = SeqMax(ords, hi)
             /\ prev' = IF FirstBuffering(pane_id, content)
                        THEN [first |-> TRUE, content |-> content]
                        ELSE NoPrev

-----------------------------------------------------------------------------
(* The input queue of one pane under an external writer.  With the live    *)
(* panes unchanged, a poll cycle of main() does to the pane's input file   *)
(* and pending text what process_input_queue does, once.                   *)

ThePane == "%1"
TheInput == <<"s", "0-a", "0", "input.txt">>

InitInput ==
    /\ fs = [p \in {<<>>, <<"s">>, <<"s", "0-a">>, <<"s", "0-a", "0">>, TheInput}
                |-> IF p = TheInput THEN File(<<>>) ELSE Dir]
    /\ _pending_content = EmptyDict
    /\ hist = NoPoll
    /\ prev = NoPrev
    /\ hi = 0
    /\ wnext = 1
    /\ pc = "input"
    /\ panes = <<Pane("s", "@1", 0, "a", 0)>>
    /\ si = 1
    /\ pi = 1
    /\ session_mappings = EmptyDict
    /\ mappings_changed = EmptyDict
    /\ session_changed = FALSE
    /\ window_dir_name = "0-a"
    /\ needs_migration = FALSE
    /\ start = [fs |-> fs, maps |-> EmptyDict, panes |-> <<>>]
    /\ same = TRUE
    /\ dirty = FALSE
    /\ last_rename = NoRename
    /\ OneRunning

Poll ==
    /\ process_input_queue(ThePane, TheInput)
    /\ UNCHANGED <<wnext, lvars, gvars>>
    /\ UNCHANGED xvars

PendingLen ==
    IF ThePane \in DOMAIN _pending_content
    THEN Len(_pending_content[ThePane]) ELSE 0

Room == Len(fs[TheInput].data) + PendingLen < MaxLen

\* stress_test.write_to_input: open(input_path, 'a'), one character at a time
WriterAppendLetter ==
    /\ Room
    /\ wnext <= Len(Letters)
    /\ fs' = WriteText(fs, TheInput, Append(fs[TheInput].data, Letters[wnext]))
    /\ wnext' = wnext + 1
    /\ hist' = NoPoll
    /\ UNCHANGED <<_pending_content, prev, hi, lvars, gvars>>
    /\ UNCHANGED xvars

WriterAppendSpace ==
    /\ Room
    /\ \E c \in {NL, SP} :
          fs' = WriteText(fs, TheInput, Append(fs[TheInput].data, c))
    /\ hist' = NoPoll
    /\ UNCHANGED <<_pending_content, prev, wnext, hi, lvars, gvars>>
    /\ UNCHANGED xvars

\* race_test: input_file.write_text(...) starts by truncating the file
WriterTruncate ==
    /\ fs[TheInput].data # <<>>
    /\ fs' = WriteText(fs, TheInput, <<>>)
    /\ hist' = NoPoll
    /\ UNCHANGED <<_pending_content, prev, wnext, hi, lvars, gvars>>
    /\ UNCHANGED xvars

NextInput == Poll \/ WriterAppendLetter \/ WriterAppendSpace \/ WriterTruncate

SpecInput == InitInput /\ [][NextInput]_vars

-----------------------------------------------------------------------------
(* main(): the poll loop, one action for each call it makes *)

\* panes_by_session.items(): the sessions in the order they first appear
RECURSIVE SessionOrder(_, _)
SessionOrder(ps, seen) ==
    IF ps = <<>> THEN <<>>
    ELSE IF ps[1].session \in seen THEN SessionOrder(Tail(ps), seen)
    ELSE <<ps[1].session>> \o SessionOrder(Tail(ps), seen \cup {ps[1].session})

SessionPanes(ps, s) == SelectSeq(ps, LAMBDA p : p.session = s)

CurSession == SessionOrder(panes, {})[si]
CurPanes == SessionPanes(panes, CurSession)
CurPane == CurPanes[pi]

Init ==
    /\ fs = [p \in {<<>>, <<".lock">>} |-> IF p = <<>> THEN Dir ELSE File(<<>>)]
    /\ _pending_content = EmptyDict
    /\ hist = NoPoll
    /\ prev = NoPrev
    /\ hi = 0
    /\ wnext = 1
    /\ pc = "list"
    /\ panes = <<>>
    /\ si = 1
    /\ pi = 1
    /\ session_mappings = EmptyDict
    /\ mappings_changed = EmptyDict
    /\ session_changed = FALSE
    /\ window_dir_name = ""
    /\ needs_migration = TRUE
    /\ start = [fs |-> fs, maps |-> EmptyDict, panes |-> <<>>]
    /\ same = FALSE
    /\ dirty = FALSE
    /\ last_rename = NoRename
    /\ OneRunning

\* panes = list_panes(), at the top of the loop
ListPanes ==
    /\ pc = "list"
    /\ \E u \in Universes :
          /\ panes' = list_panes(u)
          /\ same' = (~needs_migration /\ list_panes(u) = panes)
    /\ pc' = IF needs_migration THEN "migrate" ELSE "session"
    /\ si' = 1
    /\ pi' = 1
    /\ mappings_changed' = EmptyDict
    /\ start' = [fs |-> fs, maps |-> session_mappings, panes |-> panes]
    /\ dirty' = FALSE
    /\ last_rename' = NoRename
    /\ hist' = NoPoll
    /\ prev' = NoPrev
    /\ UNCHANGED <<fs, _pending_content, hi, wnext, session_mappings,
                   session_changed, window_dir_name, needs_migration>>
    /\ UNCHANGED xvars

\* if needs_migration: session_mappings = migrate_old_format(output_dir, panes)
Migrate ==
    /\ pc = "migrate"
    /\ LET r == migrate_old_format(fs, panes)
       IN  /\ fs' = r.fs
           /\ session_mappings' = r.session_mappings
    /\ needs_migration' = FALSE
    /\ pc' = "session"
    /\ UNCHANGED <<qvars, wnext, panes, si, pi, mappings_changed,
                   session_changed, window_dir_name, gvars>>
    /\ UNCHANGED xvars

\* for session_name, session_panes in ...: mkdir, load the mapping
BeginSession ==
    /\ pc = "session"
    /\ si <= Len(SessionOrder(panes, {}))
    /\ LET session_dir == <<sanitize_name(CurSession)>>
           made == MkdirParents(fs, session_dir)
       IN  /\ fs' = made
           /\ session_mappings' =
                 IF CurSession \in DOMAIN session_mappings
                 THEN session_mappings
                 ELSE DictSet(session_mappings, CurSession,
                              load_window_mapping(made, session_dir))
    /\ session_changed' = FALSE
    /\ pi' = 1
    /\ pc' = "window"
    /\ UNCHANGED <<qvars, wnext, panes, si, mappings_changed, window_dir_name,
                   needs_migration, gvars>>
    /\ UNCHANGED xvars

\* the record of the rename the call is about to make, if it makes one:
\* whether the target exists (collided), and then whether no other live
\* window of the session is mapped to it (stale); what the old directory holds
RenameRecord(pane, f, mapping) ==
    LET session_dir == <<sanitize_name(pane.session)>>
        new_dir_name == get_window_dir_name(pane.window_index, pane.window_name)
    IN  IF pane.window_id \in DOMAIN mapping
           /\ mapping[pane.window_id] # new_dir_name
           /\ Exists(f, session_dir \o <<mapping[pane.window_id]>>)
        THEN [renamed |-> TRUE,
              collided |-> Exists(f, session_dir \o <<new_dir_name>>),
              stale |-> \A p \in PaneSet(panes) :
                           (p.session = pane.session
                            /\ p.window_id # pane.window_id
                            /\ p.window_id \in DOMAIN mapping)
                              => mapping[p.window_id] # new_dir_name,
              pane |-> pane.pane_id,
              wid |-> pane.window_id,
              old |-> session_dir \o <<mapping[pane.window_id]>>,
              new |-> session_dir \o <<new_dir_name>>,
              before |-> Subtree(f, session_dir \o <<mapping[pane.window_id]>>),
              target |-> Subtree(f, session_dir \o <<new_dir_name>>)]
        ELSE last_rename

\* window_dir_name, changed = get_or_create_window_dir(pane, output_dir, mapping)
GetOrCreateWindowDir ==
    /\ pc = "window"
    /\ pi <= Len(CurPanes)
    /\ LET mapping == session_mappings[CurSession]
           r == get_or_create_window_dir(CurPane, fs, mapping)
       IN  /\ fs' = r.fs
           /\ session_mappings' = [session_mappings EXCEPT ![CurSession] = r.mapping]
           /\ window_dir_name' = r.name
           /\ session_changed' = (session_changed \/ r.changed)
           /\ dirty' = (dirty \/ r.changed \/ r.fs # fs \/ r.mapping # mapping)
           /\ last_rename' = RenameRecord(CurPane, fs, mapping)
    /\ pc' = "snapshot"
    /\ UNCHANGED <<qvars, wnext, panes, si, pi, mappings_changed,
                   needs_migration, start, same>>
    /\ UNCHANGED xvars

\* pane_dir = write_snapshot(pane, output_dir, scrollback, window_dir_name)
WriteSnapshot ==
    /\ pc = "snapshot"
    /\ fs' = write_snapshot(fs, CurPane, window_dir_name)
    /\ pc' = "input"
    /\ UNCHANGED <<qvars, wnext, panes, si, pi, session_mappings,
                   mappings_changed, session_changed, window_dir_name,
                   needs_migration, gvars>>
    /\ UNCHANGED xvars

\* process_input_queue(pane.pane_id, input_file)
ProcessInput ==
    /\ pc = "input"
    /\ process_input_queue(CurPane.pane_id,
                           PaneDir(CurPane, window_dir_name) \o <<"input.txt">>)
    /\ pi' = pi + 1
    /\ pc' = "window"
    /\ UNCHANGED <<wnext, panes, si, session_mappings, mappings_changed,
                   session_changed, window_dir_name, needs_migration, gvars>>
    /\ UNCHANGED xvars

\* mappings_changed[session_name] = session_changed
EndSession ==
    /\ pc = "window"
    /\ pi > Len(CurPanes)
    /\ mappings_changed' = DictSet(mappings_changed, CurSession, session_changed)
    /\ si' = si + 1
    /\ pc' = "session"
    /\ UNCHANGED <<fs, qvars, wnext, panes, pi, session_mappings,
                   session_changed, window_dir_name, needs_migration, gvars>>
    /\ UNCHANGED xvars

\* cleanup_stale(output_dir, panes, session_mappings)
CleanupStale ==
    /\ pc = "session"
    /\ si > Len(SessionOrder(panes, {}))
    /\ LET r == cleanup_stale(fs, panes, session_mappings)
       IN  /\ fs' = r.fs
           /\ session_mappings' = r.session_mappings
           /\ dirty' = (dirty \/ r.fs # fs \/ r.session_mappings # session_mappings)
    /\ pc' = "save"
    /\ UNCHANGED <<qvars, wnext, panes, si, pi, mappings_changed,
                   session_changed, window_dir_name, needs_migration, start,
                   same, last_rename>>
    /\ UNCHANGED xvars

\* "Save updated mappings": each changed session whose directory exists
RECURSIVE SaveEach(_, _)
SaveEach(f, todo) ==
    IF todo = {} THEN f
    ELSE LET s == CHOOSE x \in todo : TRUE
             session_dir == <<sanitize_name(s)>>
         IN  SaveEach(IF mappings_changed[s] /\ Exists(f, session_dir)
                      THEN save_window_mapping(f, session_dir, session_mappings[s])
                      ELSE f,
                      todo \ {s})

\* the save loop, then time.sleep(interval_sec)
SaveMappings ==
    /\ pc = "save"
    /\ fs' = SaveEach(fs, DOMAIN mappings_changed)
    /\ pc' = "list"
    /\ UNCHANGED <<qvars, wnext, panes, si, pi, session_mappings,
                   mappings_changed, session_changed, window_dir_name,
                   needs_migration, gvars>>
    /\ UNCHANGED xvars

\* An external tool appends a letter to the input file of a pane directory.
\* A write made while a cycle runs has the effect of one made before or
\* after it, so the writer moves between cycles.
WriterQueue ==
    /\ pc = "list"
    /\ wnext <= MaxQueued
    /\ \E path \in DOMAIN fs :
          /\ PathName(path) = "input.txt"
          /\ fs' = WriteText(fs, path, Append(fs[path].data, Letters[wnext]))
    /\ wnext' = wnext + 1
    /\ hist' = NoPoll
    /\ UNCHANGED <<_pending_content, prev, hi, lvars, gvars>>
    /\ UNCHANGED xvars

Next ==
    \/ ListPanes
    \/ Migrate
    \/ BeginSession
    \/ GetOrCreateWindowDir
    \/ WriteSnapshot
    \/ ProcessInput
    \/ EndSession
    \/ CleanupStale
    \/ SaveMappings
    \/ WriterQueue

Spec == Init /\ [][Next]_vars

-----------------------------------------------------------------------------
(* Properties of the input queue, stated on the record of the call just    *)
(* made (hist) and on what the call before it read (prev_first,            *)
(* prev_content).                                                          *)

HasNL(s) == \E i \in 1..Len(s) : s[i] = NL
HasLetter(s) == \E i \in 1..Len(s) : ~IsSpace(s[i])

\* the text a sequence of key-sink calls types: a soft break is a newline,
\* a submit is a blank line
RECURSIVE Render(_)
Render(evs) ==
    IF evs = <<>> THEN <<>>
    ELSE (CASE evs[1].op = "keys" -> evs[1].text
            [] evs[1].op = "soft" -> <<NL>>
            [] OTHER -> <<NL, NL>>)
         \o Render(Tail(evs))

\* one unit of non-blank lines followed by a blank line: every line of the
\* body, which starts at the front or after a newline, has a letter
IsOneUnit(c) ==
    /\ Len(c) >= 3
    /\ c[Len(c)] = NL /\ c[Len(c) - 1] = NL
    /\ LET body == SubSeq(c, 1, Len(c) - 2)
       IN  \A i \in 0..Len(body) :
              (i = 0 \/ body[i] = NL) =>
                 \E j \in (i + 1)..Len(body) :
                    /\ ~IsSpace(body[j])
                    /\ \A k \in (i + 1)..j : body[k] # NL

\* text, soft break, text, ..., text, submit, all to the pane
OneUnitShape(evs, pane_id) ==
    /\ Len(evs) >= 2
    /\ Len(evs) % 2 = 0
    /\ \A i \in 1..Len(evs) :
          /\ evs[i].pane = pane_id
          /\ (i % 2 = 1) => (evs[i].op = "keys" /\ ~HasNL(evs[i].text))
          /\ (i % 2 = 0 /\ i < Len(evs)) => evs[i].op = "soft"
          /\ (i = Len(evs)) => evs[i].op = "enter"

\* C1: with no pending prefix, a file holding one unit of non-blank lines
\* followed by a blank line is sent as exactly one unit, the lines in file
\* order with one soft break between consecutive lines and one submit at the
\* end; afterwards the file is empty and no pending prefix is held.
C1_OneUnit ==
    (hist.valid /\ ~hist.had /\ IsOneUnit(hist.content)) =>
        /\ OneUnitShape(hist.sent, ThePane)
        /\ Render(hist.sent) = hist.content
        /\ hist.file_after = <<>>
        /\ ~hist.had_after

C1_Witness ==
    /\ hist.valid /\ ~hist.had
    /\ hist.content = <<"a", NL, "b", NL, NL>>
    /\ hist.sent = <<send_keys(ThePane, <<"a">>), send_soft_newline(ThePane),
                     send_keys(ThePane, <<"b">>), send_enter(ThePane)>>

\* C2: with no pending prefix, a non-empty content without a newline sends
\* nothing on the first cycle; read again unchanged on the next cycle it is
\* submitted once (its text, then one Enter), the file is emptied and no
\* pending prefix is held.
C2_StabilityFallback ==
    /\ (hist.valid /\ ~hist.had /\ hist.content # <<>> /\ ~HasNL(hist.content))
          => hist.sent = <<>>
    /\ (hist.valid /\ hist.prev_first /\ hist.content # <<>>
        /\ ~HasNL(hist.content) /\ hist.prev_content = hist.content)
          => /\ hist.sent = <<send_keys(ThePane, hist.content),
                              send_enter(ThePane)>>
             /\ hist.file_after = <<>>
             /\ ~hist.had_after

C2_Witness ==
    /\ hist.valid /\ hist.prev_first
    /\ hist.prev_content = <<"a", "b">>
    /\ hist.content = <<"a", "b">>
    /\ Len(hist.sent) = 2

\* C3: with no pending prefix, a single line ending in one newline sends
\* nothing on the first cycle; when the file is empty on the next cycle the
\* line, without its newline, is submitted once and no pending prefix is held.
C3_LineLatency ==
    /\ (hist.valid /\ ~hist.had /\ Len(hist.content) >= 2
        /\ hist.content[Len(hist.content)] = NL
        /\ ~HasNL(SubSeq(hist.content, 1, Len(hist.content) - 1)))
          => hist.sent = <<>> /\ hist.file_after = <<>>
    /\ (hist.valid /\ hist.prev_first /\ hist.content = <<>>
        /\ Len(hist.prev_content) >= 2
        /\ hist.prev_content[Len(hist.prev_content)] = NL
        /\ ~HasNL(SubSeq(hist.prev_content, 1, Len(hist.prev_content) - 1)))
          => /\ hist.sent =
                  <<send_keys(ThePane, SubSeq(hist.prev_content, 1,
                                              Len(hist.prev_content) - 1)),
                    send_enter(ThePane)>>
             /\ hist.file_after = <<>>
             /\ ~hist.had_after

C3_Witness ==
    /\ hist.valid /\ hist.prev_first
    /\ hist.prev_content = <<"a", NL>>
    /\ hist.content = <<>>
    /\ hist.sent = <<send_keys(ThePane, <<"a">>), send_enter(ThePane)>>

\* C4: no call submits a blank unit: every Enter sent is preceded, since the
\* previous Enter, by a text that is not blank after stripping.
C4_NoBlankUnit ==
    hist.valid =>
        \A i \in 1..Len(hist.sent) :
            hist.sent[i].op = "enter" =>
                \E j \in 1..(i - 1) :
                    /\ hist.sent[j].op = "keys"
                    /\ HasLetter(hist.sent[j].text)
                    /\ \A k \in j..(i - 1) : hist.sent[k].op # "enter"

LettersOf(s) == {s[i] : i \in {j \in 1..Len(s) : ~IsSpace(s[j])}}
SentLetters(evs) == UNION {LettersOf(evs[i].text) : i \in 1..Len(evs)}

\* C5 as stated: after a call on a non-empty file the file holds the text
\* after the last blank-line boundary, or the whole content when there is no
\* boundary (unless the stability fallback submitted it); that remainder is
\* the pending prefix and none of it was sent.
C5_AsStated ==
    (hist.valid /\ hist.content # <<>>) =>
        LET messages == SplitBlank(hist.content, <<>>)
            remaining == messages[Len(messages)]
            stable == hist.had /\ hist.pend = hist.content
        IN  IF Len(messages) > 1
            THEN /\ hist.file_after = remaining
                 /\ remaining # <<>> => (hist.had_after /\ hist.pend_after = remaining)
                 /\ SentLetters(hist.sent) \cap LettersOf(remaining) = {}
            ELSE stable \/ (/\ hist.file_after = hist.content
                            /\ hist.had_after /\ hist.pend_after = hist.content
                            /\ hist.sent = <<>>)

\* C5 amended: as stated, except that a content with no boundary that ends
\* with a newline is not left in the file: the file is emptied and the
\* content without its trailing newline is appended to the pending prefix
\* (after a newline when a prefix was held); nothing is sent.
C5_Remainder ==
    (hist.valid /\ hist.content # <<>>) =>
        LET messages == SplitBlank(hist.content, <<>>)
            remaining == messages[Len(messages)]
            stable == hist.had /\ hist.pend = hist.content
            body == SubSeq(hist.content, 1, Len(hist.content) - 1)
        IN  IF Len(messages) > 1
            THEN /\ hist.file_after = remaining
                 /\ remaining # <<>> => (hist.had_after /\ hist.pend_after = remaining)
                 /\ remaining = <<>> => ~hist.had_after
                 /\ SentLetters(hist.sent) \cap LettersOf(remaining) = {}
            ELSE IF hist.content[Len(hist.content)] = NL
            THEN /\ hist.file_after = <<>>
                 /\ hist.had_after
                 /\ hist.pend_after = IF hist.had
                                      THEN hist.pend \o <<NL>> \o body
                                      ELSE body
                 /\ hist.sent = <<>>
            ELSE IF stable
            THEN hist.file_after = <<>> /\ ~hist.had_after
            ELSE /\ hist.file_after = hist.content
                 /\ hist.had_after /\ hist.pend_after = hist.content
                 /\ hist.sent = <<>>

C5_Witness ==
    /\ hist.valid /\ hist.had
    /\ hist.content = <<"b", NL>>
    /\ hist.pend = <<"a">>
    /\ hist.pend_after = <<"a", NL, "b">>
    /\ hist.file_after = <<>>

\* C7: text is sent in the order it was written: no letter is sent after a
\* letter that was written later, within a call or across calls.
C7_DeliveryOrder ==
    hist.valid =>
        LET q == <<hist.hi>> \o SentOrds(hist.sent)
        IN  \A i \in 1..(Len(q) - 1) : q[i] <= q[i + 1]

-----------------------------------------------------------------------------
(* Properties of the poll loop *)

LiveIds == {p.pane_id : p \in PaneSet(panes)}
LiveWindows == {p.window_id : p \in PaneSet(panes)}
CycleDone == pc = "list" /\ ~needs_migration

C8_Idempotent ==
    (pc = "save" /\ same) =>
        /\ ~dirty
        /\ \A s \in DOMAIN mappings_changed : ~mappings_changed[s]

C8_Witness ==
    /\ pc = "save"
    /\ same
    /\ Len(panes) = 3
    /\ \E p \in PaneSet(panes) : p.window_name = "b c"

\* the name the window of a pane has in the mapping, or "" if it has none
MappedName(maps, pane) ==
    IF pane.session \in DOMAIN maps /\ pane.window_id \in DOMAIN maps[pane.session]
    THEN maps[pane.session][pane.window_id] ELSE ""

\* the window of a live pane was mapped when the cycle began, to a directory
\* that existed, and its index or name has changed since
Moving(pane) ==
    /\ MappedName(start.maps, pane) # ""
    /\ MappedName(start.maps, pane) #
          get_window_dir_name(pane.window_index, pane.window_name)
    /\ Exists(start.fs, <<sanitize_name(pane.session), MappedName(start.maps, pane)>>)

\* the pane directory and its content and input files, where they existed
\* under the old directory of the window, exist under the new one
Carried(pane) ==
    LET old == PaneDir(pane, MappedName(start.maps, pane))
        new == PaneDir(pane, get_window_dir_name(pane.window_index,
                                                 pane.window_name))
    IN  \A rest \in {<<>>, <<"content.txt">>, <<"input.txt">>} :
            Exists(start.fs, old \o rest) => Exists(fs, new \o rest)

\* C9: for every live window that was mapped and whose index or name changed
\* since the previous cycle, after get_or_create_window_dir for every pane
\* and cleanup_stale the files of its old directory are under the new one.
C9_RenamePreserves ==
    pc = "save" => \A p \in PaneSet(panes) : Moving(p) => Carried(p)

\* C10: a rename onto a directory that exists and belongs to no live window
\* leaves, right after the call, one directory at the target holding what
\* the old directory held, nothing at the old path and the mapping entry
\* naming the target; after cleanup_stale the target is still a directory,
\* the old path is still gone and the entry still names the target.
C10_CollisionSafe ==
    (last_rename.renamed /\ last_rename.collided /\ last_rename.stale) =>
        /\ (pc = "snapshot" /\ CurPane.pane_id = last_rename.pane) =>
              /\ IsDir(fs, last_rename.new)
              /\ Subtree(fs, last_rename.new) = last_rename.before
              /\ \A q \in DOMAIN fs : ~IsPrefix(last_rename.old, q)
              /\ session_mappings[CurSession][last_rename.wid] =
                    PathName(last_rename.new)
        /\ pc = "save" =>
              /\ IsDir(fs, last_rename.new)
              /\ ~Exists(fs, last_rename.old)
              /\ session_mappings["s"][last_rename.wid] = PathName(last_rename.new)

C10_Witness ==
    /\ pc = "save"
    /\ last_rename.renamed
    /\ last_rename.collided
    /\ last_rename.stale
    /\ \E r \in DOMAIN last_rename.before : Len(r) = 2
    /\ Cardinality(DOMAIN Subtree(start.fs, last_rename.new)) > 1

\* the live panes of a session
LivePanes(s) == {p \in PaneSet(panes) : p.session = s}

\* a directory of the tree is that of a live session, of the directory a live
\* window is mapped to, or of a live pane below it
DirIsLive(d) ==
    CASE Len(d) = 1 ->
            IsHidden(PathName(d)) \/ \E p \in PaneSet(panes) :
                d = <<sanitize_name(p.session)>>
      [] Len(d) = 2 ->
            \E p \in PaneSet(panes) :
                d = <<sanitize_name(p.session), MappedName(session_mappings, p)>>
      [] Len(d) = 3 ->
            \E p \in PaneSet(panes) :
                d = PaneDir(p, MappedName(session_mappings, p))
      [] OTHER -> FALSE

\* C11: after a complete poll cycle no directory is left for a session, window
\* or pane that list_panes() did not return in that cycle, and a session
\* without live panes has neither a directory nor a mapping file.
C11_StaleReclaimed ==
    CycleDone =>
        /\ \A d \in DOMAIN fs : (IsDir(fs, d) /\ d # <<>>) => DirIsLive(d)
        /\ \A s \in Sessions : LivePanes(s) = {} =>
              \A q \in DOMAIN fs : ~IsPrefix(<<sanitize_name(s)>>, q)

\* a cycle has ended in which a pane directory of a session that stays live,
\* and in another run a whole session, was swept
C11_Witness ==
    /\ CycleDone
    /\ panes # <<>>
    /\ \E d \in DOMAIN start.fs :
          Len(d) = 2 /\ IsDir(start.fs, d) /\ d \notin DOMAIN fs
    /\ \E d \in DOMAIN start.fs :
          /\ Len(d) = 3 /\ IsDir(start.fs, d) /\ d \notin DOMAIN fs
          /\ SubSeq(d, 1, 2) \in DOMAIN fs

\* C12: after cleanup_stale every key of every in-memory mapping is the id of
\* a window list_panes() returned for that session in this cycle; and a
\* window that was not listed in the cycle before is given its directory
\* name as a new window, without a rename.
C12_KeysLive ==
    /\ (pc = "save" \/ CycleDone) =>
          \A s \in DOMAIN session_mappings :
              \A wid \in DOMAIN session_mappings[s] :
                  \E p \in LivePanes(s) : p.window_id = wid
    /\ (pc = "snapshot"
        /\ \A p \in PaneSet(start.panes) :
              ~(p.session = CurPane.session /\ p.window_id = CurPane.window_id))
          => last_rename.pane # CurPane.pane_id

\* the sweep has just dropped the key of a vanished window of a live session
C12_Witness ==
    /\ pc = "save"
    /\ "s" \in DOMAIN start.maps
    /\ \E wid \in DOMAIN start.maps["s"] :
          /\ wid \notin LiveWindows
          /\ wid \notin DOMAIN session_mappings["s"]
    /\ LiveWindows # {}

\* C13: at the end of every complete poll cycle each live session, window and
\* pane has its directory, at root/sanitize(session)/mapping[windowId]/paneIndex.
C13_LiveHasDir ==
    CycleDone =>
        \A p \in PaneSet(panes) :
            /\ MappedName(session_mappings, p) # ""
            /\ IsDir(fs, PaneDir(p, MappedName(session_mappings, p)))

\* C14: at the end of every poll cycle the windows.json of every live session
\* equals the in-memory mapping of that session.
C14_MappingPersisted ==
    CycleDone =>
        \A p \in PaneSet(panes) :
            /\ Exists(fs, MappingFile(<<sanitize_name(p.session)>>))
            /\ fs[MappingFile(<<sanitize_name(p.session)>>)].data =
                  session_mappings[p.session]

-----------------------------------------------------------------------------
(* migrate_old_format run twice on a tree left by the older layout *)

\* what the older write_snapshot left for a window directory: pane 0 with
\* its content and input files
LegacyWindow(name) ==
    {<<"s", name>>, <<"s", name, "0">>, <<"s", name, "0", "content.txt">>,
     <<"s", name, "0", "input.txt">>}

LegacyNames == {"0", "1", "0-a", "1-b_c"}
LegacyMappings == {EmptyDict, [w \in {"@1"} |-> "0-a"], [w \in {"@2"} |-> "1-a"]}

\* a tree with the given window directories under session s and, if
\* has_mapping, a windows.json holding mapping
LegacyTree(names, has_mapping, mapping) ==
    LET paths == {<<>>, <<".lock">>, <<"s">>}
                   \cup UNION {LegacyWindow(n) : n \in names}
                   \cup (IF has_mapping THEN {<<"s", "windows.json">>} ELSE {})
    IN  [p \in paths |->
            IF p = <<"s", "windows.json">> THEN File(mapping)
            ELSE IF PathName(p) = "content.txt" THEN File(<<"s", p[2]>>)
            ELSE IF PathName(p) \in {"input.txt", ".lock"} THEN File(<<>>)
            ELSE Dir]

LegacyTrees ==
    {LegacyTree(names, FALSE, EmptyDict) : names \in SUBSET LegacyNames}
      \cup {LegacyTree(names, TRUE, m) :
               names \in SUBSET LegacyNames, m \in LegacyMappings}

InitMigrate ==
    /\ fs \in LegacyTrees
    /\ _pending_content = EmptyDict
    /\ hist = NoPoll
    /\ prev = NoPrev
    /\ hi = 0
    /\ wnext = 1
    /\ pc = "panes"
    /\ panes = <<>>
    /\ si = 1
    /\ pi = 1
    /\ session_mappings = EmptyDict
    /\ mappings_changed = EmptyDict
    /\ session_changed = FALSE
    /\ window_dir_name = ""
    /\ needs_migration = TRUE
    /\ start = [fs |-> fs, maps |-> EmptyDict, panes |-> <<>>]
    /\ same = FALSE
    /\ dirty = FALSE
    /\ last_rename = NoRename
    /\ OneRunning

\* panes = list_panes()
MigrateListPanes ==
    /\ pc = "panes"
    /\ \E u \in Universes : panes' = list_panes(u)
    /\ pc' = "first"
    /\ UNCHANGED <<fs, qvars, wnext, si, pi, session_mappings, mappings_changed,
                   session_changed, window_dir_name, needs_migration, gvars>>
    /\ UNCHANGED xvars

\* session_mappings = migrate_old_format(output_dir, panes)
MigrateFirst ==
    /\ pc = "first"
    /\ LET r == migrate_old_format(fs, panes)
       IN  /\ fs' = r.fs
           /\ session_mappings' = r.session_mappings
           /\ start' = [fs |-> r.fs, maps |-> r.session_mappings, panes |-> panes]
           /\ dirty' = (r.fs # fs)
    /\ needs_migration' = FALSE
    /\ pc' = "second"
    /\ UNCHANGED <<qvars, wnext, panes, si, pi, mappings_changed,
                   session_changed, window_dir_name, same, last_rename>>
    /\ UNCHANGED xvars

\* migrate_old_format(output_dir, panes) once more, same panes
MigrateSecond ==
    /\ pc = "second"
    /\ LET r == migrate_old_format(fs, panes)
       IN  /\ fs' = r.fs
           /\ session_mappings' = r.session_mappings
    /\ pc' = "done"
    /\ UNCHANGED <<qvars, wnext, panes, si, pi, mappings_changed,
                   session_changed, window_dir_name, needs_migration, gvars>>
    /\ UNCHANGED xvars

NextMigrate ==
    \/ MigrateListPanes
    \/ MigrateFirst
    \/ MigrateSecond

SpecMigrate == InitMigrate /\ [][NextMigrate]_vars

\* the numeric window directories below the directories of live sessions: what
\* a run of migrate_old_format would rename or delete
NumericDirs(f, active_panes) ==
    {w \in DOMAIN f :
        /\ Len(w) = 2
        /\ IsDir(f, w)
        /\ IsDigit(PathName(w))
        /\ \E p \in PaneSet(active_panes) : sanitize_name(p.session) = w[1]}

\* C15: a second run of migrate_old_format on the tree the first run left,
\* with the same panes, finds nothing to rename or delete, returns the same
\* mappings and leaves the tree, every windows.json included, as it was.
C15_MigrateIdempotent ==
    /\ pc \in {"second", "done"} => NumericDirs(fs, panes) = {}
    /\ pc = "done" => (fs = start.fs /\ session_mappings = start.maps)

\* the first run renamed a numeric directory onto an existing one and
\* recorded it, and the second run is over
C15_Witness ==
    /\ pc = "done"
    /\ dirty
    /\ "s" \in DOMAIN start.maps
    /\ \E wid \in DOMAIN start.maps["s"] :
          /\ start.maps["s"][wid] = "0-a"
          /\ IsDir(fs, <<"s", "0-a", "0">>)
          /\ fs[<<"s", "0-a", "0", "content.txt">>].data = <<"s", "0">>

-----------------------------------------------------------------------------
(* Several processes started on one output directory: main() up to the loop *)

\* mutant: the lock is taken whoever holds it
flock_blind(h, p) == [ok |-> TRUE, holder |-> h \cup {p}]

\* fcntl.flock(fd, LOCK_EX | LOCK_NB) by process p when the processes of h
\* hold the lock: taken if nobody holds it, BlockingIOError otherwise
flock(h, p) ==
    IF h = {} THEN [ok |-> TRUE, holder |-> {p}]
              ELSE [ok |-> FALSE, holder |-> h]

At(p) == procs[p].at
Terminated(p) == At(p) \in {"none", "exit1", "stopped"}

\* the tree of sessions: all but the output directory itself and its lock file
SessionTree(f) == [q \in (DOMAIN f) \ {<<>>, <<".lock">>} |-> f[q]]

\* where p is, and whether a step of p changed the tree of sessions
Moves(p, at, f) ==
    procs' = [procs EXCEPT ![p] =
                 [at |-> at,
                  wrote |-> procs[p].wrote \/ SessionTree(f) # SessionTree(fs)]]

InitLock ==
    /\ fs = [p \in {} |-> Dir]
    /\ _pending_content = EmptyDict
    /\ hist = NoPoll
    /\ prev = NoPrev
    /\ hi = 0
    /\ wnext = 1
    /\ pc = "list"
    /\ panes = <<>>
    /\ si = 1
    /\ pi = 1
    /\ session_mappings = EmptyDict
    /\ mappings_changed = EmptyDict
    /\ session_changed = FALSE
    /\ window_dir_name = ""
    /\ needs_migration = TRUE
    /\ start = [fs |-> fs, maps |-> EmptyDict, panes |-> <<>>]
    /\ same = FALSE
    /\ dirty = FALSE
    /\ last_rename = NoRename
    /\ procs = [p \in Processes |-> [at |-> "none", wrote |-> FALSE]]
    /\ holder = {}
    /\ sink_ok = TRUE
    /\ read_content = <<>>
    /\ NoSweep
    /\ Writing

LockUnchanged ==
    UNCHANGED <<qvars, wnext, lvars, gvars, sink_ok, read_content, svars, dvars>>

\* a process is started (again, after it ended)
StartProcess(p) ==
    /\ Terminated(p)
    /\ procs' = [procs EXCEPT ![p] = [at |-> "mkdir", wrote |-> FALSE]]
    /\ UNCHANGED <<fs, holder>>
    /\ LockUnchanged

\* output_dir.mkdir(parents=True, exist_ok=True)
MakeOutputDir(p) ==
    /\ At(p) = "mkdir"
    /\ fs' = MkdirParents(fs, <<>>)
    /\ Moves(p, "open", MkdirParents(fs, <<>>))
    /\ UNCHANGED holder
    /\ LockUnchanged

\* acquire_lock: os.open(lock_file, O_CREAT | O_RDWR)
OpenLockFile(p) ==
    /\ At(p) = "open"
    /\ LET f == IF Exists(fs, <<".lock">>) THEN fs
                ELSE WriteText(fs, <<".lock">>, <<>>)
       IN  fs' = f /\ Moves(p, "flock", f)
    /\ UNCHANGED holder
    /\ LockUnchanged

\* acquire_lock: flock, and on BlockingIOError close and sys.exit(1)
TryLock(p) ==
    /\ At(p) = "flock"
    /\ LET r == flock(holder, p)
       IN  /\ holder' = r.holder
           /\ Moves(p, IF r.ok THEN "pid" ELSE "exit1", fs)
    /\ UNCHANGED fs
    /\ LockUnchanged

\* acquire_lock: ftruncate and write the pid
WritePid(p) ==
    /\ At(p) = "pid"
    /\ fs' = WriteText(fs, <<".lock">>, <<p>>)
    /\ Moves(p, "loop", WriteText(fs, <<".lock">>, <<p>>))
    /\ UNCHANGED holder
    /\ LockUnchanged

\* One poll cycle of p, as far as the tree goes: a snapshot for each listed
\* pane, then cleanup_stale.  The mappings play no part in the locking.
PollCycle(p) ==
    /\ At(p) = "loop"
    /\ \E ps \in {<<>>, <<Pane("s", "@1", 0, "a", 0)>>} :
          LET f == IF ps = <<>> THEN fs
                   ELSE write_snapshot(fs, ps[1], "0-a")
              g == cleanup_stale(f, ps, EmptyDict).fs
          IN  fs' = g /\ Moves(p, "loop", g)
    /\ UNCHANGED holder
    /\ LockUnchanged

\* KeyboardInterrupt: sys.exit(0), and release_lock runs at exit
Interrupt(p) ==
    /\ At(p) = "loop"
    /\ holder' = holder \ {p}
    /\ Moves(p, "stopped", fs)
    /\ UNCHANGED fs
    /\ LockUnchanged

NextLock ==
    \E p \in Processes :
        \/ StartProcess(p)
        \/ MakeOutputDir(p)
        \/ OpenLockFile(p)
        \/ TryLock(p)
        \/ WritePid(p)
        \/ PollCycle(p)
        \/ Interrupt(p)

SpecLock == InitLock /\ [][NextLock]_vars

\* C16: at most one process is past acquire_lock at a time, and it holds the
\* lock; a process that failed to take the lock and exited with code 1 has
\* changed nothing in the tree of sessions (it has at most created the output
\* directory and the lock file); the lock file is there while the lock is held.
C16_SingleInstance ==
    /\ Cardinality({p \in Processes : At(p) \in {"pid", "loop"}}) <= 1
    /\ \A p \in Processes : At(p) \in {"pid", "loop"} => holder = {p}
    /\ \A p \in Processes : At(p) = "exit1" => ~procs[p].wrote
    /\ holder # {} => Exists(fs, <<".lock">>)

\* a process has exited with code 1 while another, which has swept the
\* directory of a closed pane, runs poll cycles
C16_Witness ==
    /\ \E p, q \in Processes : At(p) = "exit1" /\ At(q) = "loop"
    /\ Exists(fs, <<".lock">>)
    /\ ~Exists(fs, <<"s">>)
    /\ \E q \in Processes : At(q) = "loop" /\ procs[q].wrote

-----------------------------------------------------------------------------
(* The input queue of one pane when tmux may fail the key calls of a poll:  *)
(* send_keys, send_soft_newline and send_enter then return False.           *)

\* process_input_queue while tmux works or, for all the key calls this call
\* makes, fails; the return values are not looked at
PollSink ==
    /\ process_input_queue(ThePane, TheInput)
    /\ \E ok \in BOOLEAN :
          /\ hist'.sent = <<>> => ok
          /\ sink_ok' = ok
    /\ UNCHANGED <<wnext, lvars, gvars, procs, holder, read_content, svars,
                   dvars>>

NextSink ==
    \/ PollSink
    \/ WriterAppendLetter
    \/ WriterAppendSpace
    \/ WriterTruncate

SpecSink == InitInput /\ [][NextSink]_vars

\* C17: when the key calls of a poll fail, the unit that was to be sent is
\* still held after the call, in the input file or as the pending prefix, to
\* be sent again by the next poll.
C17_FailedUnitHeld ==
    (hist.valid /\ ~sink_ok) =>
        SentLetters(hist.sent) \subseteq
            (LettersOf(hist.file_after) \cup LettersOf(hist.pend_after))

-----------------------------------------------------------------------------
(* The poll loop can be interrupted in any state: KeyboardInterrupt is      *)
(* caught around the whole loop.                                            *)

\* the mapping windows.json holds for the session of a pane, if there is one
SavedMapping(pane) ==
    IF Exists(fs, MappingFile(<<sanitize_name(pane.session)>>))
    THEN fs[MappingFile(<<sanitize_name(pane.session)>>)].data
    ELSE EmptyDict

\* C18: in every state of the loop, for every live window that the
\* windows.json of its session maps, the directory it names exists and holds
\* the window's panes.
C18_InterruptConsistent ==
    \A p \in PaneSet(panes) :
        p.window_id \in DOMAIN SavedMapping(p) =>
            IsDir(fs, <<sanitize_name(p.session), SavedMapping(p)[p.window_id]>>)

-----------------------------------------------------------------------------
(* process_input_queue in two steps, the read of the file and the rest,     *)
(* with a writer that appends to the file at any moment                     *)

\* content = input_file.read_text()
ReadInput ==
    /\ pc = "input"
    /\ Exists(fs, TheInput)
    /\ read_content' = fs[TheInput].data
    /\ pc' = "rewrite"
    /\ hist' = NoPoll
    /\ UNCHANGED <<fs, _pending_content, prev, hi, wnext, panes, si, pi,
                   session_mappings, mappings_changed, session_changed,
                   window_dir_name, needs_migration, gvars, procs, holder,
                   sink_ok, svars, dvars>>

\* the rest of process_input_queue, on the content read
RewriteInput ==
    /\ pc = "rewrite"
    /\ LET r == DrainInput(ThePane, read_content, _pending_content)
       IN  /\ fs' = IF r.write THEN WriteText(fs, TheInput, r.data) ELSE fs
           /\ _pending_content' = r.pend
           /\ hist' = PollRecord(ThePane, read_content, r)
           /\ hi' = SeqMax(SentOrds(r.sent), hi)
           /\ prev' = IF FirstBuffering(ThePane, read_content)
                      THEN [first |-> TRUE, content |-> read_content]
                      ELSE NoPrev
    /\ read_content' = <<>>
    /\ pc' = "input"
    /\ UNCHANGED <<wnext, panes, si, pi, session_mappings, mappings_changed,
                   session_changed, window_dir_name, needs_migration, gvars,
                   procs, holder, sink_ok, svars, dvars>>

NextRace ==
    \/ ReadInput
    \/ RewriteInput
    \/ WriterAppendLetter
    \/ WriterAppendSpace

SpecRace == InitInput /\ [][NextRace]_vars

\* the letters the writer appended since the read of the call under way
AppendedMeanwhile == LettersOf(fs[TheInput].data) \ LettersOf(read_content)

\* C19: text appended to the input file between the read and the rewrite of
\* a call of process_input_queue is, after the call, still in the file or has
\* been sent.
C19_AppendNotLost ==
    [][(pc = "rewrite" /\ pc' = "input") =>
          AppendedMeanwhile \subseteq
              (LettersOf(fs'[TheInput].data) \cup SentLetters(hist'.sent))]_vars

-----------------------------------------------------------------------------
(* The pending prefix at a blank-line boundary *)

\* the segments of the content the call just made has read
Segments == SplitBlank(hist.content, <<>>)

\* C20: when the call finds a blank-line boundary while a pending prefix P
\* (with a letter in it) is held, it sends first P, a line break and the
\* segment before the boundary as one unit, and afterwards P is no longer the
\* pending prefix: pending is the remainder of this content or nothing.
C20_PendingPrepended ==
    (hist.valid /\ hist.had /\ LettersOf(hist.pend) # {} /\ Len(Segments) > 1) =>
        LET unit == _send_message(ThePane, hist.pend \o <<NL>> \o Segments[1], TRUE)
        IN  /\ Len(hist.sent) >= Len(unit)
            /\ SubSeq(hist.sent, 1, Len(unit)) = unit
            /\ hist.had_after => hist.pend_after = Segments[Len(Segments)]

-----------------------------------------------------------------------------
(* The mapping entry of every live window *)

\* C21: at the end of every poll cycle the mapping of the session holds, for
\* every live window, the directory name composed from the index and the
\* name the window had in that cycle; and a call of get_or_create_window_dir
\* returns changed = TRUE exactly when it adds or alters a mapping entry.
C21_MappingCurrent ==
    /\ CycleDone =>
          \A p \in PaneSet(panes) :
              MappedName(session_mappings, p) =
                  get_window_dir_name(p.window_index, p.window_name)
    /\ (pc = "window" /\ pi <= Len(CurPanes)) =>
          LET mapping == session_mappings[CurSession]
              r == get_or_create_window_dir(CurPane, fs, mapping)
          IN  r.changed <=> (r.mapping # mapping)

C21_Witness ==
    /\ CycleDone
    /\ last_rename.renamed
    /\ Cardinality(LiveWindows) = 2
    /\ \E p \in PaneSet(panes) :
          /\ p.window_id = last_rename.wid
          /\ p.window_name = "b c"
          /\ MappedName(session_mappings, p) = "1-b_c"
          /\ MappedName(start.maps, p) = "0-a"

-----------------------------------------------------------------------------
(* cleanup_stale step by step: its walk, then each path.is_dir(),          *)
(* path.iterdir(), path.unlink() and path.rmdir() of _remove_dir_recursive *)
(* as a step of its own, with another party removing files in between.     *)

MaxGone == 1

\* the three lists the walk of cleanup_stale collects
StaleDirs(f, active_panes, maps) ==
    LET active_session_dirs == ActiveSessionDirs(active_panes)
        active_window_dirs == ActiveWindowDirs(active_panes, maps)
        active_pane_dirs == ActivePaneDirs(active_panes, maps)
        session_dirs == VisibleDirs(f, <<>>)
        window_dirs == UNION {{w \in IterDir(f, d) : IsDir(f, w)} :
                                 d \in session_dirs \cap active_session_dirs}
    IN  [panes |-> UNION {{p \in IterDir(f, w) : IsDir(f, p)} \ active_pane_dirs :
                             w \in window_dirs \cap active_window_dirs},
         windows |-> window_dirs \ active_window_dirs,
         sessions |-> session_dirs \ active_session_dirs]

\* the list the removal loops of cleanup_stale are in: panes, then windows,
\* then sessions
StaleKind ==
    IF stale.panes # {} THEN "panes"
    ELSE IF stale.windows # {} THEN "windows" ELSE "sessions"

Without(f, path) == [p \in (DOMAIN f) \ {path} |-> f[p]]

\* _remove_dir_recursive(path) up to its loop: a directory is listed, and
\* anything else is unlinked, which raises FileNotFoundError when it is gone
Enter(f, calls, path) ==
    IF IsDir(f, path)
    THEN [fs |-> f, raised |-> FALSE,
          work |-> <<[path |-> path, children |-> IterDir(f, path)]>> \o calls]
    ELSE IF Exists(f, path)
         THEN [fs |-> Without(f, path), raised |-> FALSE, work |-> calls]
         ELSE [fs |-> f, raised |-> TRUE, work |-> calls]

\* what every step of the sweep leaves alone
SweepUnchanged ==
    UNCHANGED <<qvars, wnext, panes, si, pi, mappings_changed, session_changed,
                window_dir_name, needs_migration, start, same, last_rename,
                procs, holder, sink_ok, read_content, gone, dvars>>

\* cleanup_stale up to its removal loops
SweepWalk ==
    /\ pc = "session"
    /\ si > Len(SessionOrder(panes, {}))
    /\ IF Exists(fs, <<>>)
       THEN /\ stale' = StaleDirs(fs, panes, session_mappings)
            /\ session_mappings' = PruneMappings(panes, session_mappings)
            /\ pc' = "sweep"
       ELSE /\ pc' = "save"
            /\ UNCHANGED <<stale, session_mappings>>
    /\ dirty' = (dirty \/ session_mappings' # session_mappings)
    /\ UNCHANGED <<fs, work>>
    /\ SweepUnchanged

\* for pane_dir in stale_pane_dirs: _remove_dir_recursive(pane_dir), and the
\* same for the window and the session directories
SweepNext ==
    /\ pc = "sweep"
    /\ work = <<>>
    /\ \E d \in stale[StaleKind] :
          LET r == Enter(fs, <<>>, d)
          IN  /\ stale' = [stale EXCEPT ![StaleKind] = @ \ {d}]
              /\ fs' = r.fs
              /\ work' = r.work
              /\ pc' = IF r.raised THEN "raised" ELSE "sweep"
    /\ dirty' = (dirty \/ fs' # fs)
    /\ UNCHANGED session_mappings
    /\ SweepUnchanged

\* for child in path.iterdir(): _remove_dir_recursive(child)
SweepChild ==
    /\ pc = "sweep"
    /\ work # <<>>
    /\ \E c \in Head(work).children :
          LET r == Enter(fs, <<[Head(work) EXCEPT !.children = @ \ {c}]>>
                                \o Tail(work), c)
          IN  /\ fs' = r.fs
              /\ work' = r.work
              /\ pc' = IF r.raised THEN "raised" ELSE "sweep"
    /\ dirty' = (dirty \/ fs' # fs)
    /\ UNCHANGED <<stale, session_mappings>>
    /\ SweepUnchanged

\* path.rmdir(), after the loop: raises when the directory is gone
SweepRmdir ==
    /\ pc = "sweep"
    /\ work # <<>>
    /\ Head(work).children = {}
    /\ LET path == Head(work).path
       IN  IF IsDir(fs, path) /\ IterDir(fs, path) = {}
           THEN /\ fs' = Without(fs, path)
                /\ work' = Tail(work)
                /\ pc' = "sweep"
           ELSE /\ pc' = "raised"
                /\ UNCHANGED <<fs, work>>
    /\ dirty' = (dirty \/ fs' # fs)
    /\ UNCHANGED <<stale, session_mappings>>
    /\ SweepUnchanged

\* "Clean up empty parent directories", and the return to main()
SweepEmpty ==
    /\ pc = "sweep"
    /\ work = <<>>
    /\ stale = NoStale
    /\ fs' = RemoveEmptySessions(fs)
    /\ dirty' = (dirty \/ fs' # fs)
    /\ pc' = "save"
    /\ UNCHANGED <<stale, work, session_mappings>>
    /\ SweepUnchanged

\* what the sweep has listed and not yet removed
AboutToGo ==
    stale.panes \cup stale.windows \cup stale.sessions
        \cup UNION {{work[i].path} \cup work[i].children : i \in 1..Len(work)}

\* another party removes a file or an empty directory the sweep has listed
OtherRemove ==
    /\ pc = "sweep"
    /\ gone < MaxGone
    /\ \E path \in DOMAIN fs :
          /\ \E d \in AboutToGo : IsPrefix(d, path)
          /\ IterDir(fs, path) = {}
          /\ fs' = Without(fs, path)
    /\ gone' = gone + 1
    /\ UNCHANGED <<qvars, wnext, lvars, gvars, procs, holder, sink_ok,
                   read_content, stale, work, dvars>>

NextSweep ==
    \/ ListPanes
    \/ Migrate
    \/ BeginSession
    \/ GetOrCreateWindowDir
    \/ WriteSnapshot
    \/ ProcessInput
    \/ EndSession
    \/ SweepWalk
    \/ SweepNext
    \/ SweepChild
    \/ SweepRmdir
    \/ SweepEmpty
    \/ SaveMappings
    \/ OtherRemove

SpecSweep == Init /\ [][NextSweep]_vars

\* C22: when _remove_dir_recursive is applied to a path, or reaches a child,
\* that another party removed after it was listed, no error is raised: the
\* sweep never ends in an exception.
C22_GoneIsSuccess == pc # "raised"

-----------------------------------------------------------------------------
(* Each letter is written once by the writer (wnext), so a letter that is  *)
(* typed twice is a piece of written text delivered twice.                 *)

\* C23: no piece of text written to the input file is sent to the key sink
\* more than once: the key calls of a poll never carry the same written
\* letter twice, also when the text was both left in the file and held as
\* the pending prefix before the writer appended a newline or a blank line.
C23_NoDuplicate ==
    hist.valid =>
        LET q == SentOrds(hist.sent)
        IN  \A i, j \in 1..Len(q) : i # j => q[i] # q[j]

\* C24: a pending prefix is never discarded or overwritten unsent: after
\* every poll that began with a prefix held, each letter of that prefix is
\* in the prefix held afterwards or in what the poll sent to the key sink.
C24_PendingKept ==
    (hist.valid /\ hist.had) =>
        LettersOf(hist.pend) \subseteq
            (LettersOf(hist.pend_after) \cup SentLetters(hist.sent))

-----------------------------------------------------------------------------
(* A rename onto the directory of another live window *)

\* the rename get_or_create_window_dir has just made for the pane in progress
\* had as its target the directory mapped to another live window
RenamedOntoLive ==
    /\ pc = "snapshot"
    /\ last_rename.renamed
    /\ last_rename.pane = CurPane.pane_id
    /\ last_rename.collided
    /\ ~last_rename.stale

\* C25: when get_or_create_window_dir renames a window's directory onto the
\* directory mapped to another live window of the session, the directory of
\* that other window is not deleted: what it held is still held by a
\* directory of the session after the call.
C25_RenameSparesLive ==
    RenamedOntoLive =>
        \E d \in IterDir(fs, <<sanitize_name(CurPane.session)>>) :
            IsDir(fs, d) /\ Subtree(fs, d) = last_rename.target

-----------------------------------------------------------------------------
(* The input queue of one pane under a writer that stops at some moment,   *)
(* and a poll loop that keeps polling: main() calls process_input_queue    *)
(* for every live pane in every pass of "while True".                      *)

MaxCycles == 4

\* the writer of SpecInput, as long as it has not stopped
DrainWrite ==
    /\ ~stopped
    /\ WriterAppendLetter \/ WriterAppendSpace \/ WriterTruncate

\* the writer writes no more
WriterStops ==
    /\ ~stopped
    /\ stopped' = TRUE
    /\ cycles' = 0
    /\ UNCHANGED <<fs, qvars, wnext, lvars, gvars, procs, holder, sink_ok,
                   read_content, svars>>

\* one poll cycle, counted once the writer has stopped
DrainPoll ==
    /\ process_input_queue(ThePane, TheInput)
    /\ cycles' = IF stopped /\ cycles < MaxCycles THEN cycles + 1 ELSE cycles
    /\ UNCHANGED <<wnext, lvars, gvars, procs, holder, sink_ok, read_content,
                   svars, stopped>>

NextDrain == DrainWrite \/ WriterStops \/ DrainPoll

SpecDrain == InitInput /\ [][NextDrain]_vars /\ WF_vars(DrainPoll)

\* the input file is empty and no pending prefix is held
Idle ==
    /\ fs[TheInput].data = <<>>
    /\ ThePane \notin DOMAIN _pending_content

\* C26: once the writer has stopped, whatever the file and the pending
\* prefix hold at that moment, the pane is Idle (file empty, no prefix held)
\* after at most three polls, an Idle pane stays Idle, and under fair
\* polling the pane does become Idle for good.
C26_Drains ==
    /\ []((stopped /\ cycles >= 3) => Idle)
    /\ [][(stopped /\ Idle) => Idle']_vars
    /\ [](stopped => <>[]Idle)

\* a third poll was needed: it sent what the first two had buffered
C26_Witness ==
    /\ stopped
    /\ cycles = 3
    /\ Idle
    /\ hist.valid /\ hist.had
    /\ hist.sent # <<>>

=============================================================================
